---- MODULE Spec2Model ----
(***************************************************************************)
(* Model of the embedded terminal session engine of codecadet:             *)
(*   - SessionManager (src/session.py): the path -> SessionInfo registry   *)
(*   - TerminalPane   (src/ui/terminal_pane.py): the handlers that start,  *)
(*     show, stop and tear down sessions, and the MockProcess adapters     *)
(*   - TerminalBridge / WebTerminalWidget (src/ui/web_terminal.py) and     *)
(*     PTYTerminalWidget (src/ui/pty_terminal.py): the PTY life cycle and  *)
(*     the inactivity detector                                             *)
(* All handlers run on the Qt main thread and are atomic actions; the PTY  *)
(* reader of a bridge is a separate thread and is modelled step by step.   *)
(***************************************************************************)
EXTENDS Integers, Sequences, FiniteSets, TLC

INACTIVITY_TIMER == 3     \* seconds
RECENTS_MAX == 15

\* ------------------------------------------------------------------ bounds
MaxLaunches == 2          \* terminal widgets / processes created in one run
NumCallers == 2           \* concurrent callers of run_claude_here (SpecConc)
MaxTime == 8              \* clock ticks of the inactivity detector model
QuietAfter == 4           \* SpecDetectorQuiet: no input or output from this tick on
MaxPushes == 2            \* SpecConfig: push_recent_repo calls in one run
MaxSgrCalls == 1          \* SpecPalette: parse_escape_sequence calls in one run
MaxItems == 3             \* SpecParser: pieces a stream is built from
MaxChunks == 2            \* SpecParser: chunks a stream is delivered in
MaxFrames == 3            \* SpecRedraw: frames of a redrawn line
MaxFrameLen == 2          \* SpecRedraw: characters of one frame
MaxParams == 3            \* SpecSgr: parameters of one SGR sequence
MaxNotes == 2             \* SpecSidebar: notifications handled in one run

Paths == {"p1", "p2"}     \* worktree paths
NoPath == "none"          \* Python None for a path
Backends == {"web", "pty", "xterm"}

VARIABLES
    backend,                \* which embedded terminal this build/platform uses
    sessions,               \* SessionManager.sessions, in dict (insertion) order
    widgets,                \* every terminal widget / process created so far
    current_worktree_path,  \* TerminalPane.current_worktree_path
    current_container,      \* TerminalPane.current_container (0 = None)
    selected,               \* the sidebar's selected worktree (get_selected_cwd)
    closed,                 \* the main window has been closed
    lastOp,                 \* the last handler run, what it probed and returned
    callers,                \* concurrent run_claude_here invocations (SpecConc)
    \* --- one TerminalBridge and its inactivity detector (SpecDetector)
    now,                    \* time.time(), in seconds
    bridge_running,         \* TerminalBridge.running
    timer_active,           \* inactivity_timer is started
    tracking_enabled,       \* TerminalBridge.tracking_enabled
    awaiting_output,        \* TerminalBridge._awaiting_output
    inactivity_triggered,   \* TerminalBridge.inactivity_triggered
    activity_seen,          \* TerminalBridge._activity_seen
    last_output_time,       \* TerminalBridge.last_output_time (0 = None)
    last_input_time,        \* TerminalBridge.last_input_time (0 = None)
    reader_pc,              \* where the reader thread is in _read_pty
    ui_pc,                  \* where the Qt main thread is in a bridge handler
    ui_now,                 \* `now` local of _check_inactivity
    fires,                  \* history: idle notifications since the last submit
    output_since_submit,    \* history: os.read returned a chunk after the last
                            \* submission entered write_to_pty
    \* configuration (config.py)
    recent_repos,           \* cfg["recent_repos"]
    last_repo,              \* cfg["last_repo"] (0 = None)
    push_log,               \* history: every repository pushed, oldest first
    pushes,                 \* history: push_recent_repo calls made in this run
    \* PTY terminal widget (ui/pty_terminal.py)
    stream,                 \* the bytes the PTY will deliver, in order
    fed,                    \* how many of them have been delivered
    chunks,                 \* history: number of chunks delivered
    data_buffer,            \* PTYTerminalWidget.data_buffer
    color_parser,           \* ANSIColorParser: fg_color, bg_color, bold, ...
    ops,                    \* history: what the widget has been told to render
    sgr_seen,               \* history: calls of parse_escape_sequence
    last_sgr,               \* history: codes of the last parse_escape_sequence
    \* sidebar indicators and notification sound (sidebar.py, main_window.py)
    attention,              \* the worktrees whose attention dot is visible
    has_sound,              \* _notif_sound has a source (the file was found)
    sound_ready,            \* 4.0 s or more have passed since _last_sound_time
    notes,                  \* history: notifications handled so far
    note                    \* history: the last notification and its effect

regVars == <<backend, sessions, widgets, current_worktree_path,
             current_container, selected, closed, lastOp>>
detVars == <<now, bridge_running, timer_active, tracking_enabled,
             awaiting_output, inactivity_triggered, activity_seen,
             last_output_time, last_input_time, reader_pc, ui_pc, ui_now, fires,
             output_since_submit>>
cfgVars == <<recent_repos, last_repo, push_log, pushes>>
ptyVars == <<stream, fed, chunks, data_buffer, color_parser, ops, sgr_seen,
             last_sgr>>
sideVars == <<attention, has_sound, sound_ready, notes, note>>
vars == <<regVars, callers, detVars, cfgVars, ptyVars, sideVars>>

\* ------------------------------------------------- the registry as a dict
\* sessions is a sequence of SessionInfo records in insertion order; process
\* and container_frame are widget ids, 0 standing for None.
SessionInfo(p, proc, frame) ==
    [worktree_path |-> p, process |-> proc, container_frame |-> frame]

Keys(S) == {S[i].worktree_path : i \in 1..Len(S)}

Has(S, p) == p \in Keys(S)

Get(S, p) == S[CHOOSE i \in 1..Len(S) : S[i].worktree_path = p]

RECURSIVE Del(_, _)
Del(S, p) ==
    IF S = <<>> THEN <<>>
    ELSE IF Head(S).worktree_path = p THEN Del(Tail(S), p)
    ELSE <<Head(S)>> \o Del(Tail(S), p)

\* self.sessions[path_str] = SessionInfo(...): an existing key keeps its
\* position and gets the new value, a new key is appended.
register_session(S, p, proc, frame) ==
    IF Has(S, p)
    THEN [i \in 1..Len(S) |->
             IF S[i].worktree_path = p THEN SessionInfo(p, proc, frame) ELSE S[i]]
    ELSE Append(S, SessionInfo(p, proc, frame))

\* ------------------------------------------- terminal widgets / processes
\* One record per terminal created by a launch.  kind is the implementation
\* behind SessionInfo.process: the web terminal's MockProcess, the PTY
\* widget's MockProcess, or the subprocess.Popen of an embedded xterm.
\*   pid         "none"    TerminalBridge.process_pid is None
\*               "missing" PTYTerminalWidget has no process_pid attribute
\*               "live"    the shell process is running
\*               "dead"    the shell process has exited
\*   master_fd   "none" | "open"
\*   start_timer "pending" while QTimer.singleShot(500, ...) has not fired
\*   running     TerminalBridge.running / PTYReader.running
\*   reader      "none" no reader thread was started, "looping" the thread
\*               is in its read loop, "ended" the loop was left
\*   launch      history: "pending", "ok" or "failed"
\*   closes      history: number of os.close calls on the master descriptor
\*   torn, tornAgain  history: teardown ran once / more than once after the
\*               descriptor was opened
\*   removed     history: "invoked" once remove_session was called on the
\*               session of this terminal, "done" once it deleted the entry
NewWidget(k, p, pidv, fd, timer, run, lnch) ==
    [kind |-> k, cwd |-> p, pid |-> pidv, master_fd |-> fd,
     start_timer |-> timer, running |-> run, launch |-> lnch,
     reader |-> IF run THEN "looping" ELSE "none",
     closes |-> 0, torn |-> FALSE, tornAgain |-> FALSE, removed |-> "no"]

Ids(W) == 1..Len(W)

LiveFor(W, p) == {h \in Ids(W) : W[h].cwd = p /\ W[h].pid = "live"}

\* Popen.poll() / MockProcess.poll(): "running" for None, "exited" for a
\* return code, "raise" when the call raises.  os.kill(None, 0) raises
\* TypeError, which `except OSError` does not catch.
poll(W, h) ==
    CASE W[h].kind = "xterm" -> IF W[h].pid = "live" THEN "running" ELSE "exited"
      [] W[h].kind = "web"   -> IF W[h].pid = "none" THEN "raise"
                                ELSE IF W[h].pid = "live" THEN "running"
                                ELSE "exited"
      [] W[h].kind = "pty"   -> IF W[h].pid = "live" THEN "running" ELSE "exited"

\* The teardown bookkeeping shared by both cleanup routines.
Torn(w) ==
    [w EXCEPT !.torn = w.torn \/ w.launch = "ok",
              !.tornAgain = w.tornAgain \/ (w.torn /\ w.launch = "ok")]

\* A cleanup that closes the descriptor but forgets master_fd = None.
cleanup_KeepsFd(W, h) ==
    [W EXCEPT ![h] =
        [Torn(W[h]) EXCEPT
            !.running = FALSE,
            !.closes = IF W[h].master_fd = "open" THEN @ + 1 ELSE @,
            !.pid = IF W[h].pid = "live" THEN "dead" ELSE @]]

\* TerminalBridge.cleanup: stop the reader, close the descriptor if it is
\* set and reset it to None, SIGTERM the process if a pid is recorded.
cleanup(W, h) ==
    [W EXCEPT ![h] =
        [Torn(W[h]) EXCEPT
            !.running = FALSE,
            !.closes = IF W[h].master_fd = "open" THEN @ + 1 ELSE @,
            !.master_fd = "none",
            !.pid = IF W[h].pid = "live" THEN "dead" ELSE @]]

\* PTYTerminalWidget._cleanup: the same steps on the widget's own fields;
\* reader.wait() returns when the reader thread has left its loop.
pty_cleanup(W, h) ==
    [W EXCEPT ![h] =
        [Torn(W[h]) EXCEPT
            !.running = FALSE,
            !.reader = IF @ = "looping" THEN "ended" ELSE @,
            !.closes = IF W[h].master_fd = "open" THEN @ + 1 ELSE @,
            !.master_fd = "none",
            !.pid = IF W[h].pid = "live" THEN "dead" ELSE @]]

\* session.process.terminate(): MockProcess.terminate delegates to the
\* widget's cleanup; Popen.terminate signals the xterm process.
terminate(W, h) ==
    CASE W[h].kind = "web"   -> cleanup(W, h)
      [] W[h].kind = "pty"   -> pty_cleanup(W, h)
      [] W[h].kind = "xterm" ->
            [W EXCEPT ![h].pid = IF @ = "live" THEN "dead" ELSE @]

\* terminate() raising: TerminalBridge.cleanup has cleared running before
\* anything in it can raise; the other two fail before any effect.
terminate_raises(W, h) ==
    IF W[h].kind = "web" THEN [W EXCEPT ![h].running = FALSE] ELSE W

\* ------------------------------------------------ SessionManager methods
Outcome(S, W, r, e) == [sessions |-> S, widgets |-> W, ret |-> r, raised |-> e]

\* The history of remove_session calls on the session of terminal h.
Marked(W, h, how) ==
    IF h = 0 THEN W
    ELSE [W EXCEPT ![h].removed = IF @ = "done" THEN @ ELSE how]

\* remove_session: no-op for an absent path; otherwise probe the process
\* (outside any try), terminate it if it is running (termFails: terminate
\* raises, which is caught and logged), destroy the container frame (a
\* failure is caught and logged; the frame has no state in this model),
\* delete the entry.
remove_session(S, W, p, termFails) ==
    IF ~Has(S, p) THEN Outcome(S, W, 0, FALSE)
    ELSE LET h == Get(S, p).process
         IN  IF h # 0 /\ poll(W, h) = "raise"
             THEN Outcome(S, Marked(W, h, "invoked"), 0, TRUE)
             ELSE Outcome(Del(S, p),
                          Marked(IF h # 0 /\ poll(W, h) = "running"
                                 THEN IF termFails THEN terminate_raises(W, h)
                                      ELSE terminate(W, h)
                                 ELSE W,
                                 h, "done"),
                          0, FALSE)

\* A lookup that returns the entry without probing the process.
get_session_NoProbe(S, W, p) ==
    IF Has(S, p) /\ Get(S, p).process # 0
    THEN Outcome(S, W, Get(S, p).process, FALSE)
    ELSE Outcome(S, W, 0, FALSE)

\* get_session: the entry if its process polls as running; an entry whose
\* process has exited is removed and None (0) is returned; an entry without
\* a process, or no entry, gives None.  ret is the process of the session
\* returned.
get_session(S, W, p) ==
    IF Has(S, p) /\ Get(S, p).process # 0
    THEN LET h == Get(S, p).process
         IN  CASE poll(W, h) = "running" -> Outcome(S, W, h, FALSE)
               [] poll(W, h) = "raise"   -> Outcome(S, W, 0, TRUE)
               [] poll(W, h) = "exited"  ->
                     remove_session(S, W, p, FALSE)
    ELSE Outcome(S, W, 0, FALSE)

\* cleanup_terminated_sessions: collect the paths whose entry has a process
\* that polls as not running, then remove each.  An entry without a process
\* is skipped by `session.process and ...`; a probe that raises ends the
\* call before anything is removed.
RECURSIVE RemoveEach(_, _, _)
RemoveEach(S, W, keys) ==
    IF keys = <<>> THEN Outcome(S, W, 0, FALSE)
    ELSE LET r == remove_session(S, W, Head(keys), FALSE)
         IN  RemoveEach(r.sessions, r.widgets, Tail(keys))

cleanup_terminated_sessions(S, W) ==
    LET probed == {i \in 1..Len(S) : S[i].process # 0}
        to_remove == SelectSeq(S, LAMBDA s :
                        s.process # 0 /\ poll(W, s.process) = "exited")
    IN  IF \E i \in probed : poll(W, S[i].process) = "raise"
        THEN Outcome(S, W, 0, TRUE)
        ELSE RemoveEach(S, W, [i \in 1..Len(to_remove) |->
                                  to_remove[i].worktree_path])

\* get_all_sessions: self.sessions.copy().
get_all_sessions(S) == S

\* TerminalPane.cleanup_all_sessions: remove_session for every key, in dict
\* order; an exception escaping one remove_session ends the loop.
\* TF is the set of paths whose terminate raises.
RECURSIVE RemoveAllFrom(_, _, _, _)
RemoveAllFrom(S, W, keys, TF) ==
    IF keys = <<>> THEN Outcome(S, W, 0, FALSE)
    ELSE LET r == remove_session(S, W, Head(keys), Head(keys) \in TF)
         IN  IF r.raised THEN r
             ELSE RemoveAllFrom(r.sessions, r.widgets, Tail(keys), TF)

cleanup_all_sessions(S, W, TF) ==
    RemoveAllFrom(S, W, [i \in 1..Len(S) |-> S[i].worktree_path], TF)

\* -------------------------------------------------------------- history
\* What a probe of path p's entry would say before a handler runs.
Probe(S, W, p) ==
    IF ~Has(S, p) THEN "absent"
    ELSE IF Get(S, p).process = 0 THEN "noproc"
    ELSE poll(W, Get(S, p).process)

RunningPaths(S, W) == {p \in Keys(S) : Probe(S, W, p) = "running"}

Op(name, p, r) ==
    [op |-> name, path |-> p, ret |-> r.ret, raised |-> r.raised,
     probe |-> IF p = NoPath THEN "absent" ELSE Probe(sessions, widgets, p)]

\* lastOp after a step that is no handler of the registry.
NoOp == [op |-> "none", path |-> NoPath, ret |-> 0, raised |-> FALSE,
         probe |-> "absent"]

\* TerminalBridge.__init__ followed by a successful start_pty: the timer
\* runs, the reader thread waits for data, nothing is tracked.  Clock
\* values are positive, as time.time() is.
InitBridge ==
    /\ now = 1
    /\ bridge_running = TRUE
    /\ timer_active = TRUE
    /\ tracking_enabled = FALSE
    /\ awaiting_output = FALSE
    /\ inactivity_triggered = FALSE
    /\ activity_seen = FALSE
    /\ last_output_time = 0
    /\ last_input_time = 0
    /\ reader_pc = "wait"
    /\ ui_pc = "idle"
    /\ ui_now = 0
    /\ fires = 0
    /\ output_since_submit = FALSE

IdleCaller == [pc |-> "idle", cwd |-> NoPath, result |-> 0, overlapped |-> {}]

\* DEFAULT_CONFIG: no recent repository, last_repo None.
InitConfig ==
    /\ recent_repos = <<>>
    /\ last_repo = 0
    /\ push_log = <<>>
    /\ pushes = 0

\* ANSIColorParser.reset(): white on black, no bold, italic or underline.
reset ==
    [fg_color |-> <<255, 255, 255>>, bg_color |-> <<0, 0, 0>>,
     bold |-> FALSE, italic |-> FALSE, underline |-> FALSE]

\* PTYTerminalWidget.__init__: a fresh colour parser and an empty buffer.
InitWidget ==
    /\ fed = 0
    /\ chunks = 0
    /\ data_buffer = <<>>
    /\ color_parser = reset
    /\ ops = <<>>
    /\ sgr_seen = 0
    /\ last_sgr = <<>>

\* No notification yet.
NoNote == [kind |-> "none", path |-> NoPath, selected |-> NoPath, played |-> FALSE]

\* SimpleWorktreePanel.__init__ hides the attention dot; App.__init__ loads
\* the sound and sets _last_sound_time = 0.0.
InitSidebar ==
    /\ attention = {}
    /\ has_sound = TRUE
    /\ sound_ready = TRUE
    /\ notes = 0
    /\ note = NoNote

InitRegistry ==
    /\ backend \in Backends
    /\ sessions = <<>>
    /\ widgets = <<>>
    /\ current_worktree_path = NoPath
    /\ current_container = 0
    /\ selected = NoPath
    /\ closed = FALSE
    /\ lastOp = NoOp
    /\ callers = [c \in 1..NumCallers |-> IdleCaller]

Init ==
    /\ InitRegistry
    /\ InitBridge
    /\ InitConfig
    /\ InitWidget
    /\ InitSidebar
    /\ stream = <<>>

\* ------------------------------------------------- TerminalPane handlers
\* What constructing the terminal for a launch can do:
\*   "ok"          the widget (or Popen) is created
\*   "fork_error"  PTYTerminalWidget._start_pty_session catches the failure
\*                 of pty.fork and the widget is created without a process
\*   "error"       the constructor or Popen raises; _start_*_terminal shows
\*                 the message, drops the container and registers nothing
LaunchOutcomes(k) ==
    IF k = "pty" THEN {"ok", "fork_error", "error"} ELSE {"ok", "error"}

\* The terminal created by _start_pty_terminal / _start_xterm_terminal.
\* The web terminal only schedules its PTY start (QTimer.singleShot).
Launched(k, p, out) ==
    CASE k = "web"   -> NewWidget("web", p, "none", "none", "pending", FALSE, "pending")
      [] k = "pty" /\ out = "ok" ->
                        NewWidget("pty", p, "live", "open", "na", TRUE, "ok")
      [] k = "pty" /\ out # "ok" ->
                        NewWidget("pty", p, "missing", "none", "na", FALSE, "failed")
      [] k = "xterm" -> NewWidget("xterm", p, "live", "none", "na", FALSE, "ok")

\* The sidebar selects worktree p: _on_panel_selected records the selection
\* and _on_sidebar_select calls switch_to_worktree(p), which shows the
\* container of the live session or the "No Session" frame.  An exception
\* from get_session leaves the pane as it was, the path already recorded.
\* The panel's set_selected(True) hides its attention dot.
SelectWorktree(p) ==
    /\ ~closed
    /\ attention' = attention \ {p}
    /\ LET r == get_session(sessions, widgets, p)
        IN  /\ selected' = p
            /\ current_worktree_path' = p
            /\ sessions' = r.sessions
            /\ widgets' = r.widgets
            /\ current_container' =
                 IF r.raised THEN current_container
                 ELSE IF r.ret # 0 THEN Get(sessions, p).container_frame
                 ELSE 0
            /\ lastOp' = Op("switch_to_worktree", p, r)
    /\ UNCHANGED <<backend, closed, callers, detVars, cfgVars, ptyVars>>
    /\ UNCHANGED <<has_sound, sound_ready, notes, note>>

\* run_claude_here: for the selected worktree, show the live session if
\* get_session finds one, otherwise create a container, start a terminal
\* in it and register the session.
RunClaudeHere ==
    /\ ~closed
    /\ selected # NoPath
    /\ \E out \in LaunchOutcomes(backend) :
        LET cwd == selected
            r == get_session(sessions, widgets, cwd)
            h == Len(widgets) + 1
        IN  /\ current_worktree_path' = cwd
            /\ IF r.raised
               THEN /\ UNCHANGED <<sessions, widgets, current_container>>
                    /\ lastOp' = Op("run_claude_here", cwd, r)
               ELSE IF r.ret # 0
               THEN /\ UNCHANGED <<sessions, widgets>>
                    /\ current_container' = Get(sessions, cwd).container_frame
                    /\ lastOp' = Op("run_claude_here", cwd, r)
               ELSE /\ Len(widgets) < MaxLaunches
                    /\ IF out = "error"
                       THEN /\ sessions' = r.sessions
                            /\ widgets' = r.widgets
                            /\ current_container' = 0
                            /\ lastOp' = Op("run_claude_here", cwd, r)
                       ELSE /\ sessions' = register_session(r.sessions, cwd, h, h)
                            /\ widgets' = Append(r.widgets, Launched(backend, cwd, out))
                            /\ current_container' = h
                            /\ lastOp' = Op("run_claude_here", cwd,
                                            [r EXCEPT !.ret = h])
    /\ UNCHANGED <<backend, selected, closed, callers, detVars, cfgVars, ptyVars, sideVars>>

\* The deferred _connect_bridge_and_start of a web terminal fires and
\* TerminalBridge.start_pty forks the shell, or fails and returns False.
StartPty(h) ==
    /\ ~closed
    /\ h \in Ids(widgets)
    /\ widgets[h].start_timer = "pending"
    /\ \E ok \in BOOLEAN :
        widgets' = [widgets EXCEPT ![h] =
            IF ok
            THEN [@ EXCEPT !.start_timer = "done", !.launch = "ok",
                           !.pid = "live", !.master_fd = "open", !.running = TRUE,
                           !.reader = "looping"]
            ELSE [@ EXCEPT !.start_timer = "done", !.launch = "failed"]]
    /\ lastOp' = NoOp
    /\ UNCHANGED <<backend, sessions, current_worktree_path, current_container,
                   selected, closed, callers, detVars, cfgVars, ptyVars, sideVars>>

\* The shell process of a terminal exits on its own.
ProcessExits(h) ==
    /\ ~closed
    /\ h \in Ids(widgets)
    /\ widgets[h].pid = "live"
    /\ widgets' = [widgets EXCEPT ![h].pid = "dead"]
    /\ lastOp' = NoOp
    /\ UNCHANGED <<backend, sessions, current_worktree_path, current_container,
                   selected, closed, callers, detVars, cfgVars, ptyVars, sideVars>>

\* closeEvent of a terminal widget: WebTerminalWidget.closeEvent calls
\* bridge.cleanup(), PTYTerminalWidget.closeEvent calls _cleanup().
WidgetCloseEvent(h) ==
    /\ ~closed
    /\ h \in Ids(widgets)
    /\ widgets[h].kind \in {"web", "pty"}
    /\ widgets' = IF widgets[h].kind = "web" THEN cleanup(widgets, h)
                  ELSE pty_cleanup(widgets, h)
    /\ lastOp' = NoOp
    /\ UNCHANGED <<backend, sessions, current_worktree_path, current_container,
                   selected, closed, callers, detVars, cfgVars, ptyVars, sideVars>>

\* stop_current: remove the session of the current worktree and show the
\* "No Session" frame; an exception from remove_session skips the latter.
StopCurrent ==
    /\ ~closed
    /\ current_worktree_path # NoPath
    /\ \E tf \in BOOLEAN :
        LET r == remove_session(sessions, widgets, current_worktree_path, tf)
        IN  /\ sessions' = r.sessions
            /\ widgets' = r.widgets
            /\ current_container' = IF r.raised THEN current_container ELSE 0
            /\ lastOp' = Op("stop_current", current_worktree_path, r)
    /\ UNCHANGED <<backend, current_worktree_path, selected, closed, callers, detVars, cfgVars, ptyVars, sideVars>>

\* App.refresh: cleanup_terminated_sessions, then the sidebar rebuilds its
\* panels, which clears the selection and starts with every dot hidden.
Refresh ==
    /\ ~closed
    /\ LET r == cleanup_terminated_sessions(sessions, widgets)
        IN  /\ sessions' = r.sessions
            /\ widgets' = r.widgets
            /\ selected' = IF r.raised THEN selected ELSE NoPath
            /\ attention' = IF r.raised THEN attention ELSE {}
            /\ lastOp' = Op("cleanup_terminated_sessions", NoPath, r)
    /\ UNCHANGED <<backend, current_worktree_path, current_container, closed,
                   callers, detVars, cfgVars, ptyVars>>
    /\ UNCHANGED <<has_sound, sound_ready, notes, note>>

\* App.closeEvent: cleanup_all_sessions inside try/except, then the window
\* closes.
CloseApp ==
    /\ ~closed
    /\ \E TF \in SUBSET Paths :
        LET r == cleanup_all_sessions(sessions, widgets, TF)
        IN  /\ sessions' = r.sessions
            /\ widgets' = r.widgets
            /\ lastOp' = Op("cleanup_all_sessions", NoPath, r)
    /\ closed' = TRUE
    /\ UNCHANGED <<backend, current_worktree_path, current_container, selected,
                   callers, detVars, cfgVars, ptyVars, sideVars>>

\* App.remove_selected: remove the session of the selected worktree, remove
\* the worktree with git (gitFails: that raises), then refresh.  The whole
\* body runs inside one try whose handler shows a message.
RemoveSelected ==
    /\ ~closed
    /\ selected # NoPath
    /\ \E tf \in BOOLEAN, gitFails \in BOOLEAN :
        LET r == remove_session(sessions, widgets, selected, tf)
            c == cleanup_terminated_sessions(r.sessions, r.widgets)
            refreshed == ~r.raised /\ ~gitFails /\ ~c.raised
        IN  /\ sessions' = IF refreshed THEN c.sessions ELSE r.sessions
            /\ widgets' = IF refreshed THEN c.widgets ELSE r.widgets
            /\ selected' = IF refreshed THEN NoPath ELSE selected
            /\ attention' = IF refreshed THEN {} ELSE attention
            /\ lastOp' = Op("remove_selected", selected, r)
    /\ UNCHANGED <<backend, current_worktree_path, current_container, closed,
                   callers, detVars, cfgVars, ptyVars>>
    /\ UNCHANGED <<has_sound, sound_ready, notes, note>>

Next ==
    \/ \E p \in Paths : SelectWorktree(p)
    \/ RunClaudeHere
    \/ \E h \in 1..MaxLaunches : StartPty(h)
    \/ \E h \in 1..MaxLaunches : ProcessExits(h)
    \/ \E h \in 1..MaxLaunches : WidgetCloseEvent(h)
    \/ StopCurrent
    \/ RemoveSelected
    \/ Refresh
    \/ CloseApp

Spec == Init /\ [][Next]_vars

\* ------------------------------------------------- the reader threads
\* _read_pty / PTYReader.run: os.read returns no data (end of stream) or
\* select/os.read raises OSError, and the loop is left with `break`.  That
\* is all the reader does: no attribute is written and no signal is
\* emitted.  The descriptor can fail, or be closed by the program in the
\* terminal, while the shell process still exists.
ReaderSeesEndOrError(h) ==
    /\ ~closed
    /\ h \in Ids(widgets)
    /\ widgets[h].reader = "looping"
    /\ widgets' = [widgets EXCEPT ![h].reader = "ended"]
    /\ lastOp' = NoOp
    /\ UNCHANGED <<backend, sessions, current_worktree_path, current_container,
                   selected, closed, callers, detVars, cfgVars, ptyVars, sideVars>>

\* The loop condition (`while self.running ...`) is tested after a select
\* that timed out and the flag has been cleared: the thread ends.
ReaderObservesStop(h) ==
    /\ ~closed
    /\ h \in Ids(widgets)
    /\ widgets[h].reader = "looping"
    /\ ~widgets[h].running
    /\ widgets' = [widgets EXCEPT ![h].reader = "ended"]
    /\ lastOp' = NoOp
    /\ UNCHANGED <<backend, sessions, current_worktree_path, current_container,
                   selected, closed, callers, detVars, cfgVars, ptyVars, sideVars>>

NextReader ==
    \/ \E p \in Paths : SelectWorktree(p)
    \/ RunClaudeHere
    \/ \E h \in 1..MaxLaunches : StartPty(h)
    \/ \E h \in 1..MaxLaunches : ProcessExits(h)
    \/ \E h \in 1..MaxLaunches : WidgetCloseEvent(h)
    \/ StopCurrent
    \/ Refresh
    \/ \E h \in 1..MaxLaunches : ReaderSeesEndOrError(h)
    \/ \E h \in 1..MaxLaunches : ReaderObservesStop(h)

SpecReader == Init /\ [][NextReader]_vars

\* ------------------------------------- idle and activity notifications
Note(k, p, sel, snd) == [kind |-> k, path |-> p, selected |-> sel, played |-> snd]

\* A notify_inactivity that does not look at the selection.
notify_inactivity_IgnoresSelection(h) ==
    /\ ~closed
    /\ notes < MaxNotes
    /\ h \in Ids(widgets)
    /\ widgets[h].kind = "web" /\ widgets[h].running
    /\ attention' = attention \cup {widgets[h].cwd}
    /\ sound_ready' = IF has_sound THEN FALSE ELSE sound_ready
    /\ note' = Note("inactivity", widgets[h].cwd, selected, has_sound /\ sound_ready)
    /\ notes' = notes + 1
    /\ lastOp' = NoOp
    /\ UNCHANGED <<backend, sessions, widgets, current_worktree_path,
                   current_container, selected, closed, callers, detVars,
                   cfgVars, ptyVars, has_sound>>

\* The bridge of web terminal h emits inactivity_detected: the widget emits
\* inactivity_for_worktree(cwd), TerminalPane._on_session_inactivity passes
\* it on and App.notify_inactivity shows the dot and plays the sound unless
\* that worktree is the selected one.  _play_notification_sound plays only
\* if the sound has a source and the last sound is 4.0 s or more ago.
notify_inactivity(h) ==
    /\ ~closed
    /\ notes < MaxNotes
    /\ h \in Ids(widgets)
    /\ widgets[h].kind = "web" /\ widgets[h].running
    /\ LET path == widgets[h].cwd
           shown == selected = NoPath \/ selected # path
           played == shown /\ has_sound /\ sound_ready
       IN  /\ attention' = IF shown THEN attention \cup {path} ELSE attention
           /\ sound_ready' = IF played THEN FALSE ELSE sound_ready
           /\ note' = Note("inactivity", path, selected, played)
    /\ notes' = notes + 1
    /\ lastOp' = NoOp
    /\ UNCHANGED <<backend, sessions, widgets, current_worktree_path,
                   current_container, selected, closed, callers, detVars,
                   cfgVars, ptyVars, has_sound>>

\* The bridge of web terminal h emits activity (keyboard input, or an
\* output chunk): App.notify_activity hides the dot of its worktree.
notify_activity(h) ==
    /\ ~closed
    /\ notes < MaxNotes
    /\ h \in Ids(widgets)
    /\ widgets[h].kind = "web"
    /\ attention' = attention \ {widgets[h].cwd}
    /\ note' = Note("activity", widgets[h].cwd, selected, FALSE)
    /\ notes' = notes + 1
    /\ lastOp' = NoOp
    /\ UNCHANGED <<backend, sessions, widgets, current_worktree_path,
                   current_container, selected, closed, callers, detVars,
                   cfgVars, ptyVars, has_sound, sound_ready>>

\* Four seconds pass after a sound was played.
SoundWindowElapses ==
    /\ ~sound_ready
    /\ sound_ready' = TRUE
    /\ UNCHANGED <<regVars, callers, detVars, cfgVars, ptyVars,
                   attention, has_sound, notes, note>>

NextSidebar ==
    \/ \E p \in Paths : SelectWorktree(p)
    \/ RunClaudeHere
    \/ \E h \in 1..MaxLaunches : StartPty(h)
    \/ Refresh
    \/ \E h \in 1..MaxLaunches : notify_inactivity(h)
    \/ \E h \in 1..MaxLaunches : notify_activity(h)
    \/ SoundWindowElapses

\* The web backend, with or without the sound file.
InitSidebarApp ==
    /\ InitRegistry /\ backend = "web"
    /\ InitBridge
    /\ InitConfig
    /\ InitWidget /\ stream = <<>>
    /\ attention = {} /\ has_sound \in BOOLEAN /\ sound_ready = TRUE
    /\ notes = 0 /\ note = NoNote

SpecSidebar == InitSidebarApp /\ [][NextSidebar]_vars

\* ------------------------------------- SessionManager called directly
\* A client of SessionManager registers a session for p, as the unit tests
\* do: with a process it has started (withProcess) or with process = None.
\* register_session does not look at the entry it replaces.
RegisterSession(p, withProcess) ==
    /\ ~closed
    /\ IF withProcess
       THEN /\ Len(widgets) < MaxLaunches
            /\ widgets' = Append(widgets, Launched(backend, p, "ok"))
            /\ sessions' = register_session(sessions, p, Len(widgets) + 1,
                                            Len(widgets) + 1)
       ELSE /\ widgets' = widgets
            /\ sessions' = register_session(sessions, p, 0, 0)
    /\ lastOp' = Op("register_session", p, Outcome(sessions, widgets, 0, FALSE))
    /\ UNCHANGED <<backend, current_worktree_path, current_container, selected,
                   closed, callers, detVars, cfgVars, ptyVars, sideVars>>

\* A client asks for all sessions.
GetAllSessions ==
    /\ ~closed
    /\ lastOp' = Op("get_all_sessions", NoPath,
                    Outcome(sessions, widgets, Len(get_all_sessions(sessions)), FALSE))
    /\ UNCHANGED <<backend, sessions, widgets, current_worktree_path,
                   current_container, selected, closed, callers, detVars, cfgVars, ptyVars, sideVars>>

NextAPI ==
    \/ \E p \in Paths, withProcess \in BOOLEAN : RegisterSession(p, withProcess)
    \/ GetAllSessions
    \/ \E p \in Paths : SelectWorktree(p)
    \/ StopCurrent
    \/ Refresh
    \/ \E h \in 1..MaxLaunches : StartPty(h)
    \/ \E h \in 1..MaxLaunches : ProcessExits(h)

SpecAPI == Init /\ [][NextAPI]_vars

\* --------------------------- run_claude_here called from several threads
\* A caller thread runs lines 231-246 of run_claude_here for path p: the
\* lookup, and the switch to the session found.  overlapped records the
\* callers that are between their lookup and their registration.
CallerCheck(c, p) ==
    /\ callers[c].pc = "idle"
    /\ LET r == get_session(sessions, widgets, p)
           inflight == {d \in 1..NumCallers : callers[d].pc = "launching"}
       IN  /\ current_worktree_path' = p
           /\ sessions' = r.sessions
           /\ widgets' = r.widgets
           /\ current_container' =
                IF r.ret # 0 THEN Get(sessions, p).container_frame
                ELSE current_container
           /\ callers' = [callers EXCEPT ![c] =
                [pc |-> IF r.raised \/ r.ret # 0 THEN "done" ELSE "launching",
                 cwd |-> p, result |-> r.ret, overlapped |-> inflight]]
    /\ lastOp' = NoOp
    /\ UNCHANGED <<backend, selected, closed, detVars, cfgVars, ptyVars, sideVars>>

\* The caller runs the rest of run_claude_here (lines 248-361 and the
\* _start_*_terminal it calls): container, terminal, register_session.
CallerLaunch(c) ==
    /\ callers[c].pc = "launching"
    /\ Len(widgets) < MaxLaunches
    /\ \E out \in LaunchOutcomes(backend) :
        LET cwd == callers[c].cwd
            h == Len(widgets) + 1
        IN  IF out = "error"
            THEN /\ UNCHANGED <<sessions, widgets>>
                 /\ current_container' = 0
                 /\ callers' = [callers EXCEPT ![c].pc = "done"]
            ELSE /\ sessions' = register_session(sessions, cwd, h, h)
                 /\ widgets' = Append(widgets, Launched(backend, cwd, out))
                 /\ current_container' = h
                 /\ callers' = [callers EXCEPT ![c].pc = "done", ![c].result = h]
    /\ lastOp' = NoOp
    /\ UNCHANGED <<backend, current_worktree_path, selected, closed, detVars, cfgVars, ptyVars, sideVars>>

NextConc ==
    \/ \E c \in 1..NumCallers, p \in Paths : CallerCheck(c, p)
    \/ \E c \in 1..NumCallers : CallerLaunch(c)
    \/ \E h \in 1..MaxLaunches : StartPty(h)
    \/ \E h \in 1..MaxLaunches : ProcessExits(h)

SpecConc == Init /\ [][NextConc]_vars

\* ------------------------------------ TerminalBridge inactivity detector
\* The reader thread (_read_pty) and the Qt main thread (write_to_pty,
\* _check_inactivity, cleanup) share the bridge's attributes without a
\* lock.  Each step below makes one access to a shared attribute, so every
\* interleaving of the two threads is a behaviour.  write_to_pty and
\* _check_inactivity run on the same thread and never overlap each other.

detRegUnchanged == UNCHANGED <<regVars, callers, cfgVars, ptyVars, sideVars>>

Tick ==
    /\ now < MaxTime
    /\ now' = now + 1
    /\ UNCHANGED <<bridge_running, timer_active, tracking_enabled,
                   awaiting_output, inactivity_triggered, activity_seen,
                   last_output_time, last_input_time, reader_pc, ui_pc,
                   ui_now, fires,
                   output_since_submit>>
    /\ detRegUnchanged

\* _read_pty, lines 93-98: the loop condition holds, select reports data
\* and os.read returns a chunk.
ReaderGetsChunk ==
    /\ reader_pc = "wait"
    /\ bridge_running
    /\ output_since_submit' = TRUE
    /\ reader_pc' = "got"
    /\ UNCHANGED <<now, bridge_running, timer_active, tracking_enabled,
                   awaiting_output, inactivity_triggered, activity_seen,
                   last_output_time, last_input_time, ui_pc, ui_now, fires>>
    /\ detRegUnchanged

\* line 100: self.last_output_time = time.time()
ReaderStampsOutput ==
    /\ reader_pc = "got"
    /\ last_output_time' = now
    /\ reader_pc' = "seen"
    /\ UNCHANGED <<now, bridge_running, timer_active, tracking_enabled,
                   awaiting_output, inactivity_triggered, activity_seen,
                   last_input_time, ui_pc, ui_now, fires,
                   output_since_submit>>
    /\ detRegUnchanged

\* line 101: self._activity_seen = True
ReaderMarksActivity ==
    /\ reader_pc = "seen"
    /\ activity_seen' = TRUE
    /\ reader_pc' = "test"
    /\ UNCHANGED <<now, bridge_running, timer_active, tracking_enabled,
                   awaiting_output, inactivity_triggered, last_output_time,
                   last_input_time, ui_pc, ui_now, fires,
                   output_since_submit>>
    /\ detRegUnchanged

\* line 102: if self.tracking_enabled; otherwise the chunk is emitted
\* (lines 107-110) and the loop waits again.
ReaderTestsTracking ==
    /\ reader_pc = "test"
    /\ reader_pc' = IF tracking_enabled THEN "await" ELSE "wait"
    /\ UNCHANGED <<now, bridge_running, timer_active, tracking_enabled,
                   awaiting_output, inactivity_triggered, activity_seen,
                   last_output_time, last_input_time, ui_pc, ui_now, fires,
                   output_since_submit>>
    /\ detRegUnchanged

\* A reader step that leaves _awaiting_output set.
ReaderClearsAwaiting_LeavesAwaiting ==
    /\ reader_pc = "await"
    /\ reader_pc' = "trig"
    /\ UNCHANGED <<now, bridge_running, timer_active, tracking_enabled,
                   awaiting_output, inactivity_triggered, activity_seen,
                   last_output_time, last_input_time, ui_pc, ui_now, fires,
                   output_since_submit>>
    /\ detRegUnchanged

\* line 104: self._awaiting_output = False
ReaderClearsAwaiting ==
    /\ reader_pc = "await"
    /\ awaiting_output' = FALSE
    /\ reader_pc' = "trig"
    /\ UNCHANGED <<now, bridge_running, timer_active, tracking_enabled,
                   inactivity_triggered, activity_seen, last_output_time,
                   last_input_time, ui_pc, ui_now, fires,
                   output_since_submit>>
    /\ detRegUnchanged

\* line 105: self.inactivity_triggered = False, then the chunk is emitted.
ReaderClearsTriggered ==
    /\ reader_pc = "trig"
    /\ inactivity_triggered' = FALSE
    /\ reader_pc' = "wait"
    /\ UNCHANGED <<now, bridge_running, timer_active, tracking_enabled,
                   awaiting_output, activity_seen, last_output_time,
                   last_input_time, ui_pc, ui_now, fires,
                   output_since_submit>>
    /\ detRegUnchanged

\* The loop condition `while self.running and self.master_fd` fails, or
\* os.read returns no data: the reader thread ends.
ReaderStops ==
    /\ reader_pc = "wait"
    /\ reader_pc' = "stopped"
    /\ UNCHANGED <<now, bridge_running, timer_active, tracking_enabled,
                   awaiting_output, inactivity_triggered, activity_seen,
                   last_output_time, last_input_time, ui_pc, ui_now, fires,
                   output_since_submit>>
    /\ detRegUnchanged

\* A write_to_pty in which every input clears the fired flag.
WriteToPty_ClearsFired(hasCR) ==
    /\ ui_pc = "idle"
    /\ last_input_time' = now
    /\ activity_seen' = TRUE
    /\ inactivity_triggered' = FALSE
    /\ ui_pc' = IF hasCR THEN "w_track" ELSE "idle"
    /\ fires' = IF hasCR THEN 0 ELSE fires
    /\ output_since_submit' = IF hasCR THEN FALSE ELSE output_since_submit
    /\ UNCHANGED <<now, bridge_running, timer_active, tracking_enabled,
                   awaiting_output, last_output_time, reader_pc, ui_now>>
    /\ detRegUnchanged

\* write_to_pty(data), lines 143-146: last_input_time (read only by the
\* main thread) and _activity_seen are set; data with a carriage return
\* goes on to arm the detector.
WriteToPty(hasCR) ==
    /\ ui_pc = "idle"
    /\ last_input_time' = now
    /\ activity_seen' = TRUE
    /\ ui_pc' = IF hasCR THEN "w_track" ELSE "idle"
    /\ fires' = IF hasCR THEN 0 ELSE fires
    /\ output_since_submit' = IF hasCR THEN FALSE ELSE output_since_submit
    /\ UNCHANGED <<now, bridge_running, timer_active, tracking_enabled,
                   awaiting_output, inactivity_triggered, last_output_time,
                   reader_pc, ui_now>>
    /\ detRegUnchanged

\* line 147: self.tracking_enabled = True
WriteArmsTracking ==
    /\ ui_pc = "w_track"
    /\ tracking_enabled' = TRUE
    /\ ui_pc' = "w_await"
    /\ UNCHANGED <<now, bridge_running, timer_active, awaiting_output,
                   inactivity_triggered, activity_seen, last_output_time,
                   last_input_time, reader_pc, ui_now, fires,
                   output_since_submit>>
    /\ detRegUnchanged

\* line 148: self._awaiting_output = True
WriteSetsAwaiting ==
    /\ ui_pc = "w_await"
    /\ awaiting_output' = TRUE
    /\ ui_pc' = "w_trig"
    /\ UNCHANGED <<now, bridge_running, timer_active, tracking_enabled,
                   inactivity_triggered, activity_seen, last_output_time,
                   last_input_time, reader_pc, ui_now, fires,
                   output_since_submit>>
    /\ detRegUnchanged

\* line 149: self.inactivity_triggered = False
WriteClearsTriggered ==
    /\ ui_pc = "w_trig"
    /\ inactivity_triggered' = FALSE
    /\ ui_pc' = "w_out"
    /\ UNCHANGED <<now, bridge_running, timer_active, tracking_enabled,
                   awaiting_output, activity_seen, last_output_time,
                   last_input_time, reader_pc, ui_now, fires,
                   output_since_submit>>
    /\ detRegUnchanged

\* line 151: self.last_output_time = None; the handler then emits activity
\* and writes the data to the PTY.
WriteClearsOutputTime ==
    /\ ui_pc = "w_out"
    /\ last_output_time' = 0
    /\ ui_pc' = "idle"
    /\ UNCHANGED <<now, bridge_running, timer_active, tracking_enabled,
                   awaiting_output, inactivity_triggered, activity_seen,
                   last_input_time, reader_pc, ui_now, fires,
                   output_since_submit>>
    /\ detRegUnchanged

\* _check_inactivity, line 118, on a timeout of the 1-second timer:
\* if not self.tracking_enabled: return
CheckTestsTracking ==
    /\ ui_pc = "idle"
    /\ timer_active
    /\ ui_pc' = IF tracking_enabled THEN "c_await" ELSE "idle"
    /\ UNCHANGED <<now, bridge_running, timer_active, tracking_enabled,
                   awaiting_output, inactivity_triggered, activity_seen,
                   last_output_time, last_input_time, reader_pc, ui_now, fires,
                   output_since_submit>>
    /\ detRegUnchanged

\* line 121: if self._awaiting_output: return
CheckTestsAwaiting ==
    /\ ui_pc = "c_await"
    /\ ui_pc' = IF awaiting_output THEN "idle" ELSE "c_trig"
    /\ UNCHANGED <<now, bridge_running, timer_active, tracking_enabled,
                   awaiting_output, inactivity_triggered, activity_seen,
                   last_output_time, last_input_time, reader_pc, ui_now, fires,
                   output_since_submit>>
    /\ detRegUnchanged

\* line 123, first operand: not self.inactivity_triggered
CheckTestsTriggered ==
    /\ ui_pc = "c_trig"
    /\ ui_pc' = IF inactivity_triggered THEN "idle" ELSE "c_seen"
    /\ UNCHANGED <<now, bridge_running, timer_active, tracking_enabled,
                   awaiting_output, inactivity_triggered, activity_seen,
                   last_output_time, last_input_time, reader_pc, ui_now, fires,
                   output_since_submit>>
    /\ detRegUnchanged

\* A check that does not look at the age of the last input.
CheckTestsInput_IgnoresInput ==
    /\ ui_pc = "c_seen"
    /\ ui_now' = IF activity_seen THEN now ELSE 0
    /\ ui_pc' = IF ~activity_seen THEN "idle" ELSE "c_out"
    /\ UNCHANGED <<now, bridge_running, timer_active, tracking_enabled,
                   awaiting_output, inactivity_triggered, activity_seen,
                   last_output_time, last_input_time, reader_pc, fires,
                   output_since_submit>>
    /\ detRegUnchanged

\* lines 123-129: self._activity_seen, now = time.time(), and the return
\* while the last input is less than INACTIVITY_TIMER old.
CheckTestsInput ==
    /\ ui_pc = "c_seen"
    /\ ui_now' = IF activity_seen THEN now ELSE 0
    /\ ui_pc' = IF ~activity_seen THEN "idle"
                ELSE IF last_input_time # 0 /\ (now - last_input_time) < INACTIVITY_TIMER
                THEN "idle"
                ELSE "c_out"
    /\ UNCHANGED <<now, bridge_running, timer_active, tracking_enabled,
                   awaiting_output, inactivity_triggered, activity_seen,
                   last_output_time, last_input_time, reader_pc, fires,
                   output_since_submit>>
    /\ detRegUnchanged

\* A check that does not look at the age of the last output.
CheckTestsOutput_IgnoresAge ==
    /\ ui_pc = "c_out"
    /\ ui_pc' = IF last_output_time # 0 THEN "c_fire" ELSE "idle"
    /\ UNCHANGED <<now, bridge_running, timer_active, tracking_enabled,
                   awaiting_output, inactivity_triggered, activity_seen,
                   last_output_time, last_input_time, reader_pc, ui_now, fires,
                   output_since_submit>>
    /\ detRegUnchanged

\* line 132: if self.last_output_time and
\*              (now - self.last_output_time) >= INACTIVITY_TIMER
CheckTestsOutput ==
    /\ ui_pc = "c_out"
    /\ ui_pc' = IF last_output_time # 0
                   /\ (ui_now - last_output_time) >= INACTIVITY_TIMER
                THEN "c_fire" ELSE "idle"
    /\ UNCHANGED <<now, bridge_running, timer_active, tracking_enabled,
                   awaiting_output, inactivity_triggered, activity_seen,
                   last_output_time, last_input_time, reader_pc, ui_now, fires,
                   output_since_submit>>
    /\ detRegUnchanged

\* line 133: self.inactivity_triggered = True
CheckSetsTriggered ==
    /\ ui_pc = "c_fire"
    /\ inactivity_triggered' = TRUE
    /\ ui_pc' = "c_emit"
    /\ UNCHANGED <<now, bridge_running, timer_active, tracking_enabled,
                   awaiting_output, activity_seen, last_output_time,
                   last_input_time, reader_pc, ui_now, fires,
                   output_since_submit>>
    /\ detRegUnchanged

\* A check that notifies without disarming the detector.
CheckDisarmsAndEmits_StaysArmed ==
    /\ ui_pc = "c_emit"
    /\ fires' = fires + 1
    /\ ui_pc' = "idle"
    /\ UNCHANGED <<now, bridge_running, timer_active, tracking_enabled,
                   awaiting_output, inactivity_triggered, activity_seen,
                   last_output_time, last_input_time, reader_pc, ui_now,
                   output_since_submit>>
    /\ detRegUnchanged

\* lines 136-137: self.tracking_enabled = False, then
\* self.inactivity_detected.emit(), the idle notification.
CheckDisarmsAndEmits ==
    /\ ui_pc = "c_emit"
    /\ tracking_enabled' = FALSE
    /\ fires' = fires + 1
    /\ ui_pc' = "idle"
    /\ UNCHANGED <<now, bridge_running, timer_active, awaiting_output,
                   inactivity_triggered, activity_seen, last_output_time,
                   last_input_time, reader_pc, ui_now,
                   output_since_submit>>
    /\ detRegUnchanged

\* A cleanup that leaves the inactivity timer running.
BridgeCleanup_KeepsTimer ==
    /\ ui_pc = "idle"
    /\ bridge_running' = FALSE
    /\ UNCHANGED <<now, timer_active, tracking_enabled, awaiting_output,
                   inactivity_triggered, activity_seen, last_output_time,
                   last_input_time, reader_pc, ui_pc, ui_now, fires,
                   output_since_submit>>
    /\ detRegUnchanged

\* TerminalBridge.cleanup, lines 193-194: running = False and the
\* inactivity timer is stopped.  (The descriptor and the process are the
\* registry model's.)
BridgeCleanup ==
    /\ ui_pc = "idle"
    /\ bridge_running' = FALSE
    /\ timer_active' = FALSE
    /\ UNCHANGED <<now, tracking_enabled, awaiting_output, inactivity_triggered,
                   activity_seen, last_output_time, last_input_time, reader_pc,
                   ui_pc, ui_now, fires,
                   output_since_submit>>
    /\ detRegUnchanged

NextDetector ==
    \/ Tick
    \/ ReaderGetsChunk
    \/ ReaderStampsOutput
    \/ ReaderMarksActivity
    \/ ReaderTestsTracking
    \/ ReaderClearsAwaiting
    \/ ReaderClearsTriggered
    \/ ReaderStops
    \/ \E hasCR \in BOOLEAN : WriteToPty(hasCR)
    \/ WriteArmsTracking
    \/ WriteSetsAwaiting
    \/ WriteClearsTriggered
    \/ WriteClearsOutputTime
    \/ CheckTestsTracking
    \/ CheckTestsAwaiting
    \/ CheckTestsTriggered
    \/ CheckTestsInput
    \/ CheckTestsOutput
    \/ CheckSetsTriggered
    \/ CheckDisarmsAndEmits
    \/ BridgeCleanup

InitDetector == Init /\ backend = "web"

SpecDetector == InitDetector /\ [][NextDetector]_vars


\* The scenario of a terminal that falls silent: keyboard input and PTY
\* output arrive only before tick QuietAfter, the bridge is not torn down,
\* and both threads and the 1-second timer keep being scheduled.
InputBeforeQuiet(hasCR) == now < QuietAfter /\ WriteToPty(hasCR)

ChunkBeforeQuiet == now < QuietAfter /\ ReaderGetsChunk

ReaderContinues ==
    \/ ReaderStampsOutput
    \/ ReaderMarksActivity
    \/ ReaderTestsTracking
    \/ ReaderClearsAwaiting
    \/ ReaderClearsTriggered

MainThreadRuns ==
    \/ WriteArmsTracking
    \/ WriteSetsAwaiting
    \/ WriteClearsTriggered
    \/ WriteClearsOutputTime
    \/ CheckTestsTracking
    \/ CheckTestsAwaiting
    \/ CheckTestsTriggered
    \/ CheckTestsInput
    \/ CheckTestsOutput
    \/ CheckSetsTriggered
    \/ CheckDisarmsAndEmits

NextDetectorQuiet ==
    \/ Tick
    \/ \E hasCR \in BOOLEAN : InputBeforeQuiet(hasCR)
    \/ ChunkBeforeQuiet
    \/ ReaderContinues
    \/ MainThreadRuns

SpecDetectorQuiet ==
    /\ InitDetector
    /\ [][NextDetectorQuiet]_vars
    /\ WF_vars(Tick)
    /\ WF_vars(ReaderContinues)
    /\ WF_vars(MainThreadRuns)

\* --------------------------------------------- teardown of a reader loop
\* The loop condition is tested with the flag cleared: select returns after
\* at most 0.1 s whether or not data arrived, so the test is always reached.
\* A reader that waits for data without a timeout would stay in its wait.
ReaderSeesFlagCleared_WaitsForData ==
    /\ reader_pc = "wait"
    /\ ~bridge_running
    /\ UNCHANGED vars

ReaderSeesFlagCleared == ~bridge_running /\ ReaderStops

\* cleanup, lines 193-197 (PTYTerminalWidget._cleanup: reader.stop() and
\* reader.wait()): the flag is cleared, the timer stopped, and the main
\* thread waits for the reader thread.
CleanupBegins ==
    /\ ui_pc = "idle"
    /\ bridge_running' = FALSE
    /\ timer_active' = FALSE
    /\ ui_pc' = "joining"
    /\ UNCHANGED <<now, tracking_enabled, awaiting_output, inactivity_triggered,
                   activity_seen, last_output_time, last_input_time, reader_pc,
                   ui_now, fires, output_since_submit>>
    /\ detRegUnchanged

\* The wait returns because the reader thread has ended, and the rest of
\* the teardown (descriptor, process) runs.  TerminalBridge.cleanup would
\* also give up waiting after 1.0 s; PTYTerminalWidget._cleanup would not.
CleanupJoined ==
    /\ ui_pc = "joining"
    /\ reader_pc = "stopped"
    /\ ui_pc' = "cleaned"
    /\ UNCHANGED <<now, bridge_running, timer_active, tracking_enabled,
                   awaiting_output, inactivity_triggered, activity_seen,
                   last_output_time, last_input_time, reader_pc, ui_now, fires,
                   output_since_submit>>
    /\ detRegUnchanged

WriteContinues ==
    \/ WriteArmsTracking
    \/ WriteSetsAwaiting
    \/ WriteClearsTriggered
    \/ WriteClearsOutputTime

NextTeardown ==
    \/ ReaderGetsChunk
    \/ ReaderContinues
    \/ ReaderStops
    \/ ReaderSeesFlagCleared
    \/ \E hasCR \in BOOLEAN : WriteToPty(hasCR)
    \/ WriteContinues
    \/ CleanupBegins
    \/ CleanupJoined

\* Both threads keep being scheduled.
SpecTeardown ==
    /\ InitDetector
    /\ [][NextTeardown]_vars
    /\ WF_vars(ReaderContinues)
    /\ WF_vars(ReaderSeesFlagCleared)
    /\ WF_vars(CleanupJoined)

\* ------------------------------------------------ config.push_recent_repo
\* Repositories are numbered; there are two more than the list can hold, so
\* that a push onto a full list can be of a listed or an unlisted one.
Repos == 1..(RECENTS_MAX + 2)

RECURSIVE Without(_, _)
\* [r for r in recents if r != s]
Without(recents, s) ==
    IF recents = <<>> THEN <<>>
    ELSE IF Head(recents) = s THEN Without(Tail(recents), s)
    ELSE <<Head(recents)>> \o Without(Tail(recents), s)

\* recents[:n] when len(recents) > n
Truncate(recents, n) ==
    IF Len(recents) > n THEN SubSeq(recents, 1, n) ELSE recents

\* A push that does not filter the repository out of the list first.
push_recent_repo_KeepsOld(recents, s) ==
    Truncate(<<s>> \o recents, RECENTS_MAX)

\* push_recent_repo: the new value of cfg["recent_repos"].
push_recent_repo(recents, s) ==
    Truncate(<<s>> \o Without(recents, s), RECENTS_MAX)

PushRecentRepo(s) ==
    /\ pushes < MaxPushes
    /\ recent_repos' = push_recent_repo(recent_repos, s)
    /\ last_repo' = s
    /\ push_log' = Append(push_log, s)
    /\ pushes' = pushes + 1
    /\ UNCHANGED <<regVars, callers, detVars, ptyVars, sideVars>>

\* The configuration after repositories 1..k have been opened in turn, for
\* every k up to a full list: each is what k calls of push_recent_repo
\* leave behind.
InitConfigOpened ==
    \E k \in 0..RECENTS_MAX :
        /\ recent_repos = [i \in 1..k |-> k + 1 - i]
        /\ last_repo = k
        /\ push_log = [i \in 1..k |-> i]
        /\ pushes = 0

NextConfig == \E s \in Repos : PushRecentRepo(s)

InitRecents ==
    /\ InitRegistry /\ backend = "web"
    /\ InitBridge
    /\ InitConfigOpened
    /\ InitWidget /\ stream = <<>>
    /\ InitSidebar

SpecConfig == InitRecents /\ [][NextConfig]_vars

\* ------------------------------------------------------- ANSIColorParser
\* Text is a sequence of characters; "E" stands for ESC, "R" for carriage
\* return, "N" for line feed.  Colours are <<r, g, b>>.
Digit == {"0", "1", "2", "3", "4", "5", "6", "7", "8", "9"}

DigitChars == <<"0", "1", "2", "3", "4", "5", "6", "7", "8", "9">>

DigitVal(c) == (CHOOSE n \in 1..10 : DigitChars[n] = c) - 1

RECURSIVE ToInt(_)
\* int(part) for a non-empty string of digits
ToInt(part) ==
    IF part = <<>> THEN 0
    ELSE ToInt(SubSeq(part, 1, Len(part) - 1)) * 10 + DigitVal(part[Len(part)])

RECURSIVE SplitAt(_, _, _, _)
SplitAt(t, sep, cur, acc) ==
    IF t = <<>> THEN Append(acc, cur)
    ELSE IF Head(t) = sep THEN SplitAt(Tail(t), sep, <<>>, Append(acc, cur))
    ELSE SplitAt(Tail(t), sep, Append(cur, Head(t)), acc)

\* str.split(sep)
Split(t, sep) == SplitAt(t, sep, <<>>, <<>>)

\* ANSIColorParser.COLORS
COLORS(num) ==
    CASE num = 30 -> <<0, 0, 0>>
      [] num = 31 -> <<205, 49, 49>>
      [] num = 32 -> <<13, 188, 121>>
      [] num = 33 -> <<229, 229, 16>>
      [] num = 34 -> <<36, 114, 200>>
      [] num = 35 -> <<188, 63, 188>>
      [] num = 36 -> <<17, 168, 205>>
      [] num = 37 -> <<229, 229, 229>>
      [] num = 90 -> <<102, 102, 102>>
      [] num = 91 -> <<241, 76, 76>>
      [] num = 92 -> <<35, 209, 139>>
      [] num = 93 -> <<245, 245, 67>>
      [] num = 94 -> <<59, 142, 234>>
      [] num = 95 -> <<214, 112, 214>>
      [] num = 96 -> <<41, 184, 219>>
      [] num = 97 -> <<255, 255, 255>>

\* ANSIColorParser.BG_COLORS: the foreground table under code + 10
BG_COLORS(num) == COLORS(num - 10)

\* A palette lookup that falls back to the 16 standard colours.
_get_256_color_Fallback16(index) == COLORS(30 + (index % 8))

\* ANSIColorParser._get_256_color
_get_256_color(index) ==
    IF index < 16 THEN COLORS(30 + (index % 8))
    ELSE IF index < 232
    THEN <<((index - 16) \div 36) * 51,
           (((index - 16) % 36) \div 6) * 51,
           ((index - 16) % 6) * 51>>
    ELSE <<(index - 232) * 10 + 8, (index - 232) * 10 + 8, (index - 232) * 10 + 8>>

\* The branch of parse_escape_sequence for 38 (field fg_color) and 48
\* (field bg_color), at part i: the new style and how far i is advanced
\* inside the branch.  int() of an empty part raises ValueError, which the
\* loop catches: nothing is set and nothing is skipped.
ExtendedColor(st, parts, i, field) ==
    IF i + 1 > Len(parts) THEN [style |-> st, skip |-> 1]
    ELSE IF parts[i + 1] = <<>> THEN [style |-> st, skip |-> 0]
    ELSE IF ToInt(parts[i + 1]) = 2 /\ i + 4 <= Len(parts)
    THEN IF parts[i + 2] = <<>> \/ parts[i + 3] = <<>> \/ parts[i + 4] = <<>>
         THEN [style |-> st, skip |-> 0]
         ELSE [style |-> [st EXCEPT ![field] = <<ToInt(parts[i + 2]),
                                                 ToInt(parts[i + 3]),
                                                 ToInt(parts[i + 4])>>],
               skip |-> 4]
    ELSE IF ToInt(parts[i + 1]) = 5 /\ i + 2 <= Len(parts)
    THEN IF parts[i + 2] = <<>>
         THEN [style |-> st, skip |-> 0]
         ELSE [style |-> [st EXCEPT ![field] = _get_256_color(ToInt(parts[i + 2]))],
               skip |-> 2]
    ELSE [style |-> st, skip |-> 1]

\* One pass of the while loop of parse_escape_sequence.
ApplyCode(st, parts, i) ==
    LET num == ToInt(parts[i])
        same(x) == [style |-> x, skip |-> 0]
    IN  CASE num = 0 -> same(reset)
          [] num = 1 -> same([st EXCEPT !.bold = TRUE])
          [] num = 3 -> same([st EXCEPT !.italic = TRUE])
          [] num = 4 -> same([st EXCEPT !.underline = TRUE])
          [] num = 22 -> same([st EXCEPT !.bold = FALSE])
          [] num = 23 -> same([st EXCEPT !.italic = FALSE])
          [] num = 24 -> same([st EXCEPT !.underline = FALSE])
          [] (30 <= num /\ num <= 37) \/ (90 <= num /\ num <= 97) ->
                same([st EXCEPT !.fg_color = COLORS(num)])
          [] (40 <= num /\ num <= 47) \/ (100 <= num /\ num <= 107) ->
                same([st EXCEPT !.bg_color = BG_COLORS(num)])
          [] num = 38 -> ExtendedColor(st, parts, i, "fg_color")
          [] num = 48 -> ExtendedColor(st, parts, i, "bg_color")
          [] num = 39 -> same([st EXCEPT !.fg_color = <<255, 255, 255>>])
          [] num = 49 -> same([st EXCEPT !.bg_color = <<0, 0, 0>>])
          [] OTHER -> same(st)

RECURSIVE ApplyCodes(_, _, _)
ApplyCodes(st, parts, i) ==
    IF i > Len(parts) THEN st
    ELSE LET r == ApplyCode(st, parts, i)
         IN  ApplyCodes(r.style, parts, i + r.skip + 1)

\* ANSIColorParser.parse_escape_sequence: the parser state after the codes.
parse_escape_sequence(st, codes) ==
    ApplyCodes(st, Split(IF codes = <<>> THEN <<"0">> ELSE codes, ";"), 1)

RECURSIVE ToDigits(_)
\* str(n)
ToDigits(n) ==
    IF n < 10 THEN <<DigitChars[n + 1]>>
    ELSE Append(ToDigits(n \div 10), DigitChars[(n % 10) + 1])

\* The codes "38;5;<index>" and "48;5;<index>" for every palette index.
PaletteCodes ==
    {ToDigits(g) \o <<";", "5", ";">> \o ToDigits(index) :
        g \in {38, 48}, index \in 0..255}

\* parse_escape_sequence is called with the codes of one SGR sequence.
ParseEscapeSequence(codes) ==
    /\ sgr_seen < MaxSgrCalls
    /\ color_parser' = parse_escape_sequence(color_parser, codes)
    /\ last_sgr' = codes
    /\ sgr_seen' = sgr_seen + 1
    /\ UNCHANGED <<stream, fed, chunks, data_buffer, ops>>
    /\ UNCHANGED <<regVars, callers, detVars, cfgVars, sideVars>>

NextPalette == \E codes \in PaletteCodes : ParseEscapeSequence(codes)

InitPalette ==
    /\ InitRegistry /\ backend = "web"
    /\ InitBridge
    /\ InitConfig
    /\ InitWidget /\ stream = <<>>
    /\ InitSidebar

SpecPalette == InitPalette /\ [][NextPalette]_vars

\* ------------------------------------- PTYTerminalWidget: incoming data
\* The element of a one-element set.  { e(x) : x \in {v} } names the value v
\* as x in e, so that v is computed once however often e uses it.
Only(S) == CHOOSE x \in S : TRUE

At(t, i) == IF 1 <= i /\ i <= Len(t) THEN t[i] ELSE "end"

RECURSIVE RunLen(_, _, _)
\* The length of the longest run of characters of S in t from index i.
RunLen(t, i, S) ==
    IF i <= Len(t) /\ t[i] \in S THEN 1 + RunLen(t, i + 1, S) ELSE 0

\* The length of the match of a pattern of _process_buffered_data at index
\* i of t, 0 if it does not match there:
\*   "clear" \x1b\[[23]J            "home" \x1b[H
\*   "vis"   \x1b\[\?[0-9]+[lh]     "pos"  \x1b\[[0-9]+;[0-9]+H
\*   "col"   \x1b\[[0-9]*[GKJ]      "eol"  \x1b\[K
\*   "sgr"   \x1b\[([0-9;]*?)m
MatchLen(kind, t, i) ==
    IF At(t, i) # "E" \/ At(t, i + 1) # "[" THEN 0
    ELSE LET d == RunLen(t, i + 2, Digit)
             q == RunLen(t, i + 3, Digit)
             d2 == RunLen(t, i + 3 + d, Digit)
             p == RunLen(t, i + 2, Digit \cup {";"})
         IN  CASE kind = "clear" ->
                    IF At(t, i + 2) \in {"2", "3"} /\ At(t, i + 3) = "J" THEN 4 ELSE 0
               [] kind = "home" -> IF At(t, i + 2) = "H" THEN 3 ELSE 0
               [] kind = "vis" ->
                    IF At(t, i + 2) = "?" /\ q >= 1 /\ At(t, i + 3 + q) \in {"l", "h"}
                    THEN 4 + q ELSE 0
               [] kind = "pos" ->
                    IF d >= 1 /\ At(t, i + 2 + d) = ";" /\ d2 >= 1
                       /\ At(t, i + 3 + d + d2) = "H"
                    THEN 4 + d + d2 ELSE 0
               [] kind = "col" ->
                    IF At(t, i + 2 + d) \in {"G", "K", "J"} THEN 3 + d ELSE 0
               [] kind = "eol" -> IF At(t, i + 2) = "K" THEN 3 ELSE 0
               [] kind = "sgr" -> IF At(t, i + 2 + p) = "m" THEN 3 + p ELSE 0

\* `sequence in text` / re.search for one of the patterns
Contains(kind, t) ==
    \E x \in {t} : \E i \in 1..Len(x) : MatchLen(kind, x, i) > 0

RECURSIVE RemoveFrom(_, _, _)
RemoveFrom(kind, t, i) ==
    IF i > Len(t) THEN <<>>
    ELSE Only({IF n > 0 THEN RemoveFrom(kind, t, i + n)
                        ELSE <<t[i]>> \o RemoveFrom(kind, t, i + 1) :
               n \in {MatchLen(kind, t, i)}})

\* re.sub(pattern, '', text) / text.replace(sequence, '')
RemoveAll(kind, t) == Only({RemoveFrom(kind, x, 1) : x \in {t}})

RECURSIVE NormalizeCRLF(_, _)
\* text.replace('\r\n', '\n')
NormalizeCRLF(t, i) ==
    IF i > Len(t) THEN <<>>
    ELSE IF t[i] = "R" /\ At(t, i + 1) = "N"
    THEN <<"N">> \o NormalizeCRLF(t, i + 2)
    ELSE <<t[i]>> \o NormalizeCRLF(t, i + 1)

RECURSIVE LastFrames_KeepsEveryFrame(_, _, _, _)
\* A collapse that only drops the carriage returns.
LastFrames_KeepsEveryFrame(t, i, done, cur) ==
    IF i > Len(t) THEN done \o cur
    ELSE IF t[i] = "R" THEN LastFrames_KeepsEveryFrame(t, i + 1, done, cur)
    ELSE LastFrames_KeepsEveryFrame(t, i + 1, done, Append(cur, t[i]))

RECURSIVE LastFrames(_, _, _, _)
\* '\n'.join(p.split('\r')[-1] for p in text.split('\n'))
LastFrames(t, i, done, cur) ==
    IF i > Len(t) THEN done \o cur
    ELSE IF t[i] = "N" THEN LastFrames(t, i + 1, done \o cur \o <<"N">>, <<>>)
    ELSE IF t[i] = "R" THEN LastFrames(t, i + 1, done, <<>>)
    ELSE LastFrames(t, i + 1, done, Append(cur, t[i]))

\* What the widget is told to render.  Text is recorded one character at a
\* time, so that only its content, order and format count, not how
\* insertText calls divide it.
RenderOp(name, c, st) == [op |-> name, text |-> c, style |-> st]

ClearScreen == RenderOp("clear", "", reset)

MoveCursorHome == RenderOp("home", "", reset)

ClearCurrentLine == RenderOp("clear_line", "", reset)

InsertStyledText(c, st) == RenderOp("insert", c, st)

\* re.search(r'\x1b\[[0-9;]*$', remaining_text): the index at which the
\* unterminated sequence at the end of t starts, Len(t) + 1 if there is none
\* ($ also matches before a line feed that ends t).
IncompleteStart(t) ==
    LET starts == {i \in 1..Len(t) :
                      /\ t[i] = "E" /\ At(t, i + 1) = "["
                      /\ LET e == i + 1 + RunLen(t, i + 2, Digit \cup {";"})
                         IN  \/ e = Len(t)
                             \/ e = Len(t) - 1 /\ t[Len(t)] = "N"}
    IN  IF starts = {} THEN Len(t) + 1
        ELSE CHOOSE i \in starts : \A j \in starts : i <= j

\* The widget's parsing state: buffer, colour parser, render history.
Widget(buf, st, rendered, n, codes) ==
    [data_buffer |-> buf, color_parser |-> st, ops |-> rendered,
     sgr_seen |-> n, last_sgr |-> codes]

\* Lines 338-342: a clear-screen sequence anywhere in the text clears the
\* widget and resets the colour parser before anything else is processed.
\* In these steps the field data_buffer holds the local variable text.
HandleClearScreen(w0) ==
    Only({IF Contains("clear", w.data_buffer)
          THEN Widget(RemoveAll("clear", w.data_buffer), reset,
                      Append(w.ops, ClearScreen), w.sgr_seen, w.last_sgr)
          ELSE w :
          w \in {w0}})

\* Lines 344-349
HandleCursorHome(w0) ==
    Only({IF Contains("home", w.data_buffer)
          THEN [w EXCEPT !.data_buffer = RemoveAll("home", @),
                         !.ops = Append(@, MoveCursorHome)]
          ELSE w :
          w \in {w0}})

\* Lines 351-355
RemoveControlSequences(w) ==
    [w EXCEPT !.data_buffer =
        RemoveAll("eol", RemoveAll("col", RemoveAll("pos", RemoveAll("vis", @))))]

\* Lines 357-375
HandleCarriageReturns(w0) ==
    Only({IF \E i \in 1..Len(text) : text[i] = "R"
          THEN [w EXCEPT !.data_buffer = LastFrames(text, 1, <<>>, <<>>),
                         !.ops = Append(@, ClearCurrentLine)]
          ELSE [w EXCEPT !.data_buffer = text] :
          w \in {w0}, text \in {NormalizeCRLF(w0.data_buffer, 1)}})

RECURSIVE InsertRuns(_, _, _, _)
\* The loop over re.finditer(pattern, text) and the text after the last
\* match, up to index stop: text between sequences is inserted with
\* get_current_format(), each sequence goes to parse_escape_sequence.
InsertRuns(t, i, stop, w) ==
    IF i >= stop THEN w
    ELSE Only({
        IF n > 0
        THEN Only({InsertRuns(t, i + n, stop,
                       Widget(w.data_buffer,
                              parse_escape_sequence(w.color_parser, codes),
                              w.ops, w.sgr_seen + 1, codes)) :
                   codes \in {SubSeq(t, i + 2, i + n - 2)}})
        ELSE InsertRuns(t, i + 1, stop,
                 [w EXCEPT !.ops = Append(@, InsertStyledText(t[i], w.color_parser))]) :
        n \in {MatchLen("sgr", t, i)}})

\* Lines 377-423: styled text is inserted up to an unterminated sequence at
\* the end of the text, which becomes the new data_buffer.
InsertText(w0) ==
    Only({[InsertRuns(w.data_buffer, 1, stop, w)
              EXCEPT !.data_buffer = SubSeq(w.data_buffer, stop, Len(w.data_buffer))] :
          w \in {w0}, stop \in {IncompleteStart(w0.data_buffer)}})

\* PTYTerminalWidget._process_buffered_data
_process_buffered_data(w) ==
    InsertText(HandleCarriageReturns(RemoveControlSequences(
        HandleCursorHome(HandleClearScreen(w)))))

RECURSIVE decode(_)
\* data.decode('utf-8', errors='replace').replace('�', ' ').  "U1" and
\* "U2" are the two bytes of one non-ASCII character "u"; every other byte
\* is the character it encodes.
decode(data) ==
    IF data = <<>> THEN <<>>
    ELSE IF Head(data) = "U1" /\ Len(data) >= 2 /\ data[2] = "U2"
    THEN <<"u">> \o decode(SubSeq(data, 3, Len(data)))
    ELSE IF Head(data) \in {"U1", "U2"} THEN <<" ">> \o decode(Tail(data))
    ELSE <<Head(data)>> \o decode(Tail(data))

\* PTYTerminalWidget._on_data_received
_on_data_received(w, data) ==
    _process_buffered_data([w EXCEPT !.data_buffer = @ \o decode(data)])

\* SGR parameter lists as a program may send them: recognised parameters,
\* numbers no branch handles (5, 99), empty parameters, and the extended
\* colour introducer with or without what it needs.
Params == { <<>>, <<"0">>, <<"1">>, <<"4">>, <<"3", "1">>, <<"5">>,
            <<"9", "9">>, <<"3", "8">>, <<"2">> }

RECURSIVE JoinSemicolon(_)
JoinSemicolon(parts) ==
    IF Len(parts) = 1 THEN parts[1]
    ELSE parts[1] \o <<";">> \o JoinSemicolon(Tail(parts))

SgrCodes ==
    {JoinSemicolon(f) : f \in UNION {[1..k -> Params] : k \in 1..MaxParams}}

NextSgr == \E codes \in SgrCodes : ParseEscapeSequence(codes)

SpecSgr == InitPalette /\ [][NextSgr]_vars

\* The bytes a PTY delivers, by the pieces the widget distinguishes: plain
\* characters, carriage return "R", line feed "N", a two-byte character,
\* SGR sequences, clear-screen, a cursor-visibility sequence and a sequence
\* the program left unterminated ("E" is ESC).
Items ==
    { <<"a">>, <<"b">>, <<"R">>, <<"N">>, <<"U1", "U2">>,
      <<"E", "[", "1", ";", "3", "1", "m">>, <<"E", "[", "0", "m">>,
      <<"E", "[", "2", "J">>, <<"E", "[", "?", "2", "5", "l">>,
      <<"E", "[", "3">> }

RECURSIVE Flatten(_)
Flatten(items) ==
    IF items = <<>> THEN <<>> ELSE Head(items) \o Flatten(Tail(items))

Streams == {Flatten(f) : f \in UNION {[1..k -> Items] : k \in 0..MaxItems}}

ThisWidget == Widget(data_buffer, color_parser, ops, sgr_seen, last_sgr)

\* PTYReader emits data_received with the next n bytes of the stream and the
\* widget's slot _on_data_received runs on them.
Receive(n) ==
    /\ chunks < MaxChunks
    /\ fed + n <= Len(stream)
    /\ \E w \in {_on_data_received(ThisWidget, SubSeq(stream, fed + 1, fed + n))} :
           /\ data_buffer' = w.data_buffer
           /\ color_parser' = w.color_parser
           /\ ops' = w.ops
           /\ sgr_seen' = w.sgr_seen
           /\ last_sgr' = w.last_sgr
    /\ fed' = fed + n
    /\ chunks' = chunks + 1
    /\ UNCHANGED stream
    /\ UNCHANGED <<regVars, callers, detVars, cfgVars, sideVars>>

NextParser == \E n \in 1..(Len(stream) - fed) : Receive(n)

InitParser ==
    /\ InitRegistry /\ backend = "pty"
    /\ InitBridge
    /\ InitConfig
    /\ InitWidget /\ stream \in Streams
    /\ InitSidebar

SpecParser == InitParser /\ [][NextParser]_vars

\* One line redrawn in place: frames of plain text separated by bare
\* carriage returns, delivered to a fresh widget as a single chunk.
Frames == UNION {[1..k -> {"a", "b"}] : k \in 0..MaxFrameLen}

RECURSIVE JoinCR(_)
JoinCR(frames) ==
    IF Len(frames) = 1 THEN frames[1]
    ELSE frames[1] \o <<"R">> \o JoinCR(Tail(frames))

RedrawStreams == {JoinCR(f) : f \in UNION {[1..k -> Frames] : k \in 2..MaxFrames}}

ReceiveWhole == fed = 0 /\ Len(stream) > 0 /\ Receive(Len(stream))

InitRedraw ==
    /\ InitRegistry /\ backend = "pty"
    /\ InitBridge
    /\ InitConfig
    /\ InitWidget /\ stream \in RedrawStreams
    /\ InitSidebar

SpecRedraw == InitRedraw /\ [][ReceiveWhole]_vars

\* ====================================================== session registry

\* C1: in every reachable state at most one live shell process exists per
\* worktree path: starting or registering a session for a path never leaves
\* an earlier, still-running process for that path alive.
C1_AtMostOneLiveProcessPerPath ==
    \A p \in Paths : Cardinality(LiveFor(widgets, p)) <= 1

C3_ConcurrentRunsShareOneSession ==
    \A c, d \in 1..NumCallers :
        ( /\ c # d
          /\ callers[c].pc = "done" /\ callers[d].pc = "done"
          /\ callers[c].cwd = callers[d].cwd
          /\ d \in callers[c].overlapped )
        => callers[c].result = callers[d].result

\* C4: if launching the PTY/shell for a path fails, no session entry whose
\* launch failed is present in the registry afterwards.
C4_FailedLaunchNotRegistered ==
    \A i \in 1..Len(sessions) :
        sessions[i].process # 0 => widgets[sessions[i].process].launch # "failed"

\* C5: remove_session is idempotent: for an absent path it changes nothing
\* and raises nothing; calling it twice leaves the registry as calling it
\* once does, which is the path absent and all other entries unchanged.
C5_RemoveIdempotent ==
    \A p \in Paths, t1 \in BOOLEAN, t2 \in BOOLEAN :
        LET a == remove_session(sessions, widgets, p, t1)
            b == remove_session(a.sessions, a.widgets, p, t2)
        IN  /\ ~Has(sessions, p) =>
                 a.sessions = sessions /\ a.widgets = widgets /\ ~a.raised
            /\ b.sessions = a.sessions
            /\ ~b.raised
            /\ ~Has(a.sessions, p)
            /\ a.sessions = Del(sessions, p)

\* C6: across any sequence of teardown calls for one session (terminate
\* from remove_session, closeEvent, repeated cleanup) the PTY master
\* descriptor is closed exactly once: never twice, and once as soon as one
\* teardown has run on the opened descriptor.
C6_DescriptorClosedExactlyOnce ==
    \A h \in Ids(widgets) :
        /\ widgets[h].closes <= 1
        /\ widgets[h].torn => widgets[h].closes = 1 /\ widgets[h].master_fd = "none"
        /\ ~widgets[h].torn => widgets[h].closes = 0

\* C6 witness: a session torn down more than once, its descriptor closed once.
C6_Witness ==
    \E h \in Ids(widgets) : widgets[h].tornAgain /\ widgets[h].closes = 1

\* C7: cleanup_all_sessions always runs to completion and leaves the
\* registry empty, whatever fails for an individual session.
C7_CleanupAllEmptiesRegistry ==
    lastOp.op = "cleanup_all_sessions" => sessions = <<>> /\ ~lastOp.raised

\* C8: after cleanup_terminated_sessions the registry holds only sessions
\* with a running process: every session whose process has exited and every
\* session without a process has been removed.
C8_CleanupTerminatedKeepsOnlyRunning ==
    lastOp.op = "cleanup_terminated_sessions" =>
        /\ ~lastOp.raised
        /\ \A p \in Keys(sessions) : Probe(sessions, widgets, p) = "running"

\* C9: get_all_sessions returns only the sessions whose process is still
\* running: a registered session whose process has terminated does not
\* appear in the result.
C9_GetAllSessionsOnlyRunning ==
    lastOp.op = "get_all_sessions" =>
        LET all == get_all_sessions(sessions)
        IN  \A i \in 1..Len(all) :
                all[i].process # 0 => poll(widgets, all[i].process) # "exited"

\* =================================================== inactivity detector

\* C10: between two consecutive submissions (inputs with a carriage return)
\* the detector emits at most one idle notification, under every
\* interleaving of the reader thread, keyboard input and the periodic check.
C10_AtMostOneNotificationPerSubmit == fires <= 1

\* C10 witness: the detector has fired for the current submission, output
\* and input without a carriage return have arrived since, and later checks
\* have had the time to run.
C10_Witness ==
    /\ fires = 1
    /\ ui_pc = "idle" /\ reader_pc = "wait"
    /\ last_output_time # 0 /\ last_input_time # 0
    /\ last_input_time < last_output_time
    /\ now - last_output_time >= INACTIVITY_TIMER
    /\ ~tracking_enabled

\* The submission is complete (write_to_pty has returned with the detector
\* armed), an output chunk has been recorded since, and the terminal is
\* silent with the reader waiting for data.  The last conjunct keeps the
\* threshold within the modelled clock.
SubmittedThenOutputThenSilence ==
    /\ now >= QuietAfter
    /\ ui_pc = "idle"
    /\ reader_pc = "wait"
    /\ tracking_enabled
    /\ last_output_time # 0
    /\ last_output_time + INACTIVITY_TIMER <= MaxTime

C12_NoFireWhileInputRecent ==
    [][fires' = fires + 1 =>
          /\ last_input_time # 0
          /\ ui_now - last_input_time >= INACTIVITY_TIMER]_vars

\* C12 witness: the output was older than the threshold while input kept the
\* check from firing, and the detector fired once the input was old enough.
C12_Witness ==
    /\ fires = 1
    /\ ui_pc = "idle"
    /\ last_output_time # 0
    /\ last_input_time > last_output_time
    /\ ui_now - last_input_time = INACTIVITY_TIMER
    /\ ui_now - last_output_time > INACTIVITY_TIMER

\* C13: a carriage-return input leaves the detector armed (tracking enabled,
\* awaiting the first output, fired cleared, last-output time cleared), and
\* from then on it does not fire until an output chunk has been received
\* after that input.
C13_ArmedUntilOutputAfterSubmit ==
    /\ [][(ui_pc = "w_out" /\ ui_pc' = "idle") =>
              /\ tracking_enabled'
              /\ awaiting_output'
              /\ ~inactivity_triggered'
              /\ last_output_time' = 0]_vars
    /\ [][fires' = fires + 1 => output_since_submit]_vars

\* C20 as stated: the detector fires only at a check at which the time
\* since the last output exceeds INACTIVITY_TIMER.
C20_FiresOnlyWhenOutputAgeExceeds ==
    [][(ui_pc = "c_out" /\ ui_pc' = "c_fire") =>
          /\ last_output_time # 0
          /\ now - last_output_time > INACTIVITY_TIMER]_vars

\* C20 amended: the detector fires only at a check at which the time since
\* the last output is at least INACTIVITY_TIMER; it never fires while the
\* last output is less than INACTIVITY_TIMER old.
C20_FiresOnlyWhenOutputAgeAtLeast ==
    [][(ui_pc = "c_out" /\ ui_pc' = "c_fire") =>
          /\ last_output_time # 0
          /\ now - last_output_time >= INACTIVITY_TIMER]_vars

\* C20 witness: a check has decided to fire on an output exactly
\* INACTIVITY_TIMER old.
C20_Witness ==
    /\ ui_pc = "c_fire"
    /\ last_output_time # 0
    /\ now - last_output_time = INACTIVITY_TIMER

\* ============================================================ configuration

RECURSIVE MostRecentFirst(_)
\* The distinct repositories of a push history, the latest pushed first.
MostRecentFirst(log) ==
    IF log = <<>> THEN <<>>
    ELSE LET s == log[Len(log)]
         IN  <<s>> \o Without(MostRecentFirst(SubSeq(log, 1, Len(log) - 1)), s)

\* C18: after any sequence of push_recent_repo calls recent_repos has no
\* duplicate, has at most RECENTS_MAX entries, lists the repositories the
\* most recently pushed first (an existing entry moves to the front, the
\* oldest is dropped from a full list), and last_repo is the first entry.
C18_RecentReposInvariant ==
    /\ \A i, j \in 1..Len(recent_repos) :
            i # j => recent_repos[i] # recent_repos[j]
    /\ Len(recent_repos) <= RECENTS_MAX
    /\ recent_repos = Truncate(MostRecentFirst(push_log), RECENTS_MAX)
    /\ push_log # <<>> => /\ recent_repos # <<>>
                          /\ last_repo = recent_repos[1]

\* C18 witness: a listed repository was pushed again onto a full list and
\* then an unlisted one, which dropped the oldest entry.
C18_Witness ==
    /\ pushes = MaxPushes
    /\ Len(recent_repos) = RECENTS_MAX
    /\ Len(push_log) > RECENTS_MAX + 1
    /\ \E i \in 1..(Len(push_log) - 2) : push_log[i] = push_log[Len(push_log) - 1]
    /\ \A i \in 1..(Len(push_log) - 1) : push_log[i] # push_log[Len(push_log)]
    /\ last_repo = push_log[Len(push_log)]
    /\ \A i \in 1..Len(recent_repos) : recent_repos[i] # 1

\* ============================================================ ANSI colours

\* C17: for every index i in 16..231 given by SGR 38;5;i or 48;5;i the
\* resolved colour is the 6x6x6 cube colour ((i-16) div 36)*51,
\* (((i-16) mod 36) div 6)*51, ((i-16) mod 6)*51, index 196 being pure red,
\* never a 16-colour fallback; for i in 232..255 it is a grey of the
\* 24-step ramp.
C17_PaletteCubeAndGreys ==
    last_sgr \in PaletteCodes =>
        LET parts == Split(last_sgr, ";")
            i == ToInt(parts[3])
            c == IF ToInt(parts[1]) = 38 THEN color_parser.fg_color
                 ELSE color_parser.bg_color
        IN  /\ (16 <= i /\ i <= 231) =>
                  c = <<((i - 16) \div 36) * 51,
                        (((i - 16) % 36) \div 6) * 51,
                        ((i - 16) % 6) * 51>>
            /\ i = 196 => c = <<255, 0, 0>>
            /\ (232 <= i /\ i <= 255) =>
                  /\ c[1] = c[2] /\ c[2] = c[3]
                  /\ \E k \in 0..23 : c[1] = 8 + 10 * k /\ k = i - 232

\* C17 witness: SGR 38;5;196 has been parsed and the foreground is pure red.
C17_Witness ==
    /\ last_sgr = <<"3", "8", ";", "5", ";", "1", "9", "6">>
    /\ color_parser.fg_color = <<255, 0, 0>>


\* ============================================================ PTY widget
\* The widget before any data arrived.
FreshWidget == Widget(<<>>, reset, <<>>, 0, <<>>)

\* The whole stream delivered as one chunk.
WholeStream == _on_data_received(FreshWidget, stream)

\* C14: parsing is split-invariant: once the whole stream has been fed, in
\* however many chunks, the render operations, the style state and the
\* partial buffer are those of feeding the stream as one chunk.
C14_SplitInvariant ==
    fed = Len(stream) =>
        /\ ops = WholeStream.ops
        /\ color_parser = WholeStream.color_parser
        /\ data_buffer = WholeStream.data_buffer


\* The text after the last carriage return of the stream.
FinalFrame ==
    LET crs == {i \in 1..Len(stream) : stream[i] = "R"}
        last == CHOOSE i \in crs : \A j \in crs : j <= i
    IN  SubSeq(stream, last + 1, Len(stream))

\* C15: a single chunk text1 CR text2 CR ... textN without line feed clears
\* the current line once and inserts textN only, in the current style.
C15_RedrawKeepsFinalFrame ==
    fed = Len(stream) =>
        ops = <<ClearCurrentLine>>
              \o [i \in 1..Len(FinalFrame) |-> InsertStyledText(FinalFrame[i], reset)]

\* Three non-empty frames were delivered and the last one was inserted.
C15_Witness ==
    /\ fed = Len(stream)
    /\ Cardinality({i \in 1..Len(stream) : stream[i] = "R"}) = 2
    /\ stream[1] # "R" /\ stream[Len(stream)] # "R"
    /\ \A i \in 1..(Len(stream) - 1) : ~(stream[i] = "R" /\ stream[i + 1] = "R")
    /\ Len(ops) = 1 + Len(FinalFrame)
    /\ ops[1].op = "clear_line"
    /\ ops[Len(ops)].op = "insert"


RECURSIVE StyleInEffect(_, _, _)
\* The style in effect after the bytes of t from index i on, starting from
\* style st: every SGR sequence of t applied in order.
StyleInEffect(t, i, st) ==
    IF i > Len(t) THEN st
    ELSE IF MatchLen("sgr", t, i) > 0
    THEN StyleInEffect(t, i + MatchLen("sgr", t, i),
             parse_escape_sequence(st,
                 SubSeq(t, i + 2, i + MatchLen("sgr", t, i) - 2)))
    ELSE StyleInEffect(t, i + 1, st)

\* A stream of plain text and SGR sequences that ends in a plain character.
StyledTextStream ==
    /\ Len(stream) > 0
    /\ stream[Len(stream)] \in {"a", "b"}
    /\ \A i \in 1..Len(stream) : stream[i] \notin {"R", "N", "U1", "U2", "J", "?"}

\* C16: text is inserted with the style in effect at its point of the
\* stream: once a stream of text and SGR sequences has been fed, its last
\* character was inserted last, with the attributes of all SGR sequences
\* that precede it.
C16_TextCarriesStyleInEffect ==
    (fed = Len(stream) /\ StyledTextStream) =>
        /\ Len(ops) > 0
        /\ ops[Len(ops)] =
              InsertStyledText(stream[Len(stream)], StyleInEffect(stream, 1, reset))


\* The unterminated escape sequence t ends in: ESC [ and parameters up to
\* the end of t; empty if t does not end in one.
UnterminatedSuffix(t) ==
    LET starts == {i \in 1..Len(t) :
                      /\ t[i] = "E" /\ At(t, i + 1) = "["
                      /\ i + 1 + RunLen(t, i + 2, Digit \cup {";"}) = Len(t)}
    IN  IF starts = {} THEN <<>>
        ELSE SubSeq(t, CHOOSE i \in starts : TRUE, Len(t))

RECURSIVE CountSgr(_, _)
\* The number of complete SGR sequences of t from index i on.
CountSgr(t, i) ==
    IF i > Len(t) THEN 0
    ELSE IF MatchLen("sgr", t, i) > 0
    THEN 1 + CountSgr(t, i + MatchLen("sgr", t, i))
    ELSE CountSgr(t, i + 1)

\* C19: after a chunk, the partial buffer is the unterminated escape
\* sequence the pending text (stored suffix, then the chunk) ends in, and is
\* empty if it ends in none; the suffix is not inserted; and every sequence
\* the chunk completes or contains is interpreted exactly once.
C19_PartialSuffixBuffered ==
    [][fed' > fed =>
         LET text == data_buffer \o decode(SubSeq(stream, fed + 1, fed'))
         IN  /\ data_buffer' = UnterminatedSuffix(text)
             /\ sgr_seen' = sgr_seen + CountSgr(text, 1)
             /\ Cardinality({k \in (Len(ops) + 1)..Len(ops') : ops'[k].op = "insert"})
                    <= Len(text) - Len(UnterminatedSuffix(text))]_vars

\* Entry i of the 16-entry palette: the eight standard colours, then the
\* eight bright ones.
Palette16(i) == IF i < 8 THEN COLORS(30 + i) ELSE COLORS(90 + (i - 8))

\* C22: for an index i in 0..15 given by SGR 38;5;i or 48;5;i the resolved
\* colour is entry i of the 16-entry palette: 0..7 the standard colours,
\* 8..15 the bright colours.
C22_PaletteFirstSixteen ==
    last_sgr \in PaletteCodes =>
        LET parts == Split(last_sgr, ";")
            i == ToInt(parts[3])
            c == IF ToInt(parts[1]) = 38 THEN color_parser.fg_color
                 ELSE color_parser.bg_color
        IN  i <= 15 => c = Palette16(i)

\* The parameters this parser interprets on their own.
Recognised(part) ==
    /\ part # <<>>
    /\ ToInt(part) \in {0, 1, 3, 4, 22, 23, 24, 39, 49}
                       \cup (30..37) \cup (90..97) \cup (40..47) \cup (100..107)

\* C21: parameters that cannot be interpreted (unknown numbers, empty
\* parameters) are skipped one by one: after a sequence without extended
\* colour the style is the one its recognised parameters give, applied in
\* order to the style before.
C21_UninterpretableParametersSkipped ==
    (sgr_seen = 1 /\ last_sgr # <<>>
       /\ \A k \in 1..Len(Split(last_sgr, ";")) :
              Split(last_sgr, ";")[k] \notin {<<"3", "8">>, <<"4", "8">>}) =>
        color_parser =
            ApplyCodes(reset, SelectSeq(Split(last_sgr, ";"), Recognised), 1)

\* ======================================================== reader threads
\* C23: once the reader of a session's terminal has left its loop on end of
\* stream or a descriptor error, a lookup for the session's path finds no
\* live session.
C23_ReaderEndMarksSessionExited ==
    \A i \in 1..Len(sessions) :
        (sessions[i].process # 0
           /\ widgets[sessions[i].process].reader = "ended") =>
            get_session(sessions, widgets, sessions[i].worktree_path).ret = 0

\* C24: once the stop flag of the reader is set, the reader loop ends, and
\* a teardown that waits for the reader completes.
C24_StopFlagEndsReader ==
    /\ (~bridge_running) ~> (reader_pc = "stopped")
    /\ (ui_pc = "joining") ~> (ui_pc = "cleaned")

\* The teardown has completed on a terminal that had produced output.
C24_Witness ==
    /\ ui_pc = "cleaned"
    /\ reader_pc = "stopped"
    /\ ~bridge_running
    /\ last_output_time # 0

\* ======================================================= sidebar indicator
\* C25: an idle notification for a worktree other than the selected one
\* shows that worktree's attention dot, and only such a notification plays
\* the sound; a notification for the selected worktree changes neither the
\* dots nor the sound; an activity notification hides the dot of its
\* worktree.
C25_AttentionOnlyForUnselected ==
    [][notes' = notes + 1 =>
         /\ (note'.kind = "inactivity" /\ selected = note'.path) =>
                /\ attention' = attention
                /\ sound_ready' = sound_ready
                /\ ~note'.played
         /\ (note'.kind = "inactivity" /\ selected # note'.path) =>
                /\ attention' = attention \cup {note'.path}
                /\ note'.played = (has_sound /\ sound_ready)
         /\ note'.kind = "activity" => note'.path \notin attention']_vars

\* An idle notification for the unselected p2 while p1 is selected has
\* shown the dot of p2 and played the sound.
C25_Witness ==
    /\ note.kind = "inactivity"
    /\ note.selected = "p1"
    /\ note.path = "p2"
    /\ note.played
    /\ "p2" \in attention

\* ======================================================= detector races
\* C26: whenever the detector is in Tracking (tracking enabled and no
\* longer awaiting the first output) and no carriage-return input is being
\* handled, a last-output time is recorded: no interleaving of the reader
\* handling a chunk with a carriage-return input leaves Tracking with the
\* last-output time cleared.
C26_TrackingHasOutputTime ==
    (/\ tracking_enabled
     /\ ~awaiting_output
     /\ ui_pc \notin {"w_track", "w_await", "w_trig", "w_out"})
        => last_output_time # 0

\* ======================================================= removed sessions
\* C27: once remove_session has been invoked on a session, no shell process
\* of that session is running or launched afterwards, also when the removal
\* comes before the deferred PTY start of a web terminal.
C27_NoShellAfterRemoval ==
    \A h \in Ids(widgets) :
        widgets[h].removed # "no" => widgets[h].pid # "live"

\* ======================================================= pane and registry
\* C28: whenever the terminal pane shows a session container, the registry
\* holds a session for current_worktree_path and its container is the one
\* shown.
C28_ShownContainerIsRegistered ==
    current_container # 0 =>
        /\ Has(sessions, current_worktree_path)
        /\ Get(sessions, current_worktree_path).container_frame = current_container

\* ======================================================= detector teardown
\* C29: after cleanup() has run on the bridge (running cleared, the
\* inactivity timer stopped) the detector emits no idle notification,
\* whichever state it was torn down in.
C29_NoFireAfterCleanup ==
    [][~bridge_running => fires' <= fires]_vars

\* The bridge was cleaned up while the detector was in Tracking with the
\* output already silent for INACTIVITY_TIMER, and nothing was emitted.
C29_Witness ==
    /\ ~timer_active
    /\ ~bridge_running
    /\ tracking_enabled
    /\ ~awaiting_output
    /\ ~inactivity_triggered
    /\ activity_seen
    /\ last_output_time # 0
    /\ now - last_output_time >= INACTIVITY_TIMER
    /\ now - last_input_time >= INACTIVITY_TIMER
    /\ fires = 0

\* C30: keyboard input without a carriage return changes only the
\* last-input time and the activity-seen flag; tracking, awaiting first
\* output, fired and the last-output time stay as they were.
C30_PlainInputOnlyStampsInput ==
    [][(ui_pc = "idle" /\ ui_pc' = "idle" /\ last_input_time' # last_input_time) =>
           /\ tracking_enabled' = tracking_enabled
           /\ awaiting_output' = awaiting_output
           /\ inactivity_triggered' = inactivity_triggered
           /\ last_output_time' = last_output_time
           /\ fires' = fires]_vars

\* Plain input arrived after the detector had fired: it is still fired and
\* not armed.
C30_Witness ==
    /\ ui_pc = "idle"
    /\ fires = 1
    /\ inactivity_triggered
    /\ ~tracking_enabled
    /\ activity_seen
    /\ last_input_time >= ui_now
    /\ last_input_time > last_output_time

====
